---- MODULE Spec2Model ----
(***************************************************************************)
(* Kanban Lite (src/main.go): the store of boards, lists and cards behind  *)
(* one sync.RWMutex, its JSON snapshot persistence (write a temporary      *)
(* file, rename it over the final one) and the per-board event fan-out     *)
(* over buffered channels.                                                  *)
(*                                                                         *)
(* Every HTTP handler is a process.  A handler is modelled from the        *)
(* decoded request on: the request fields (req.Title, req.CardID, ...)     *)
(* are inputs.  A handler's statements that touch shared state are steps;  *)
(* statements no other goroutine can observe are merged into the step      *)
(* that follows them.                                                      *)
(*                                                                         *)
(* Go values are 0-based, TLA+ sequences 1-based: a card at index i of a   *)
(* sequence stands for Go index i-1.  nil is 0 for pointers and ids.       *)
(***************************************************************************)
EXTENDS Integers, Sequences, FiniteSets, TLC

\* ---------------------------------------------------------------- bounds
\* Requests served in one run.
MaxReqs == 2
\* Requests served in one run of the fan-out workloads.
OrderReqs == 3
FullReqs == 19
\* Requests served in one run of the workload that lets identifiers collide.
IdReqs == 3
\* Requests served in one run of the workload with a subscriber that leaves.
CancelReqs == 3
\* Requests and restarts in one run of the workload that starts the process.
LoadReqs == 3
\* Requests served in one run of the two-board workload.
BoardsReqs == 4
\* Requests served in one run of the one-client workload.
SerialReqs == 7
\* Cards of the snapshot loaded at startup.
MaxSeedCards == 2

\* ------------------------------------------------------ program constants
\* make(chan []byte, 16)
QueueCap == 16

\* ------------------------------------------------------------ data model
\* Card.uid is not a field of the program: it numbers the Card values in the
\* order they came to exist, so that two cards with equal IDs stay apart.
MkCard(id, pos, uid) == [ID |-> id, Title |-> "t", Position |-> pos, uid |-> uid]

MkList(id, pos, cards) == [ID |-> id, Title |-> "t", Position |-> pos, Cards |-> cards]

MkBoard(id, lists, events) == [ID |-> id, Title |-> "t", Lists |-> lists, Events |-> events]

NoCard == MkCard(0, 0, 0)

\* for i := range cards { cards[i].Position = i }
Renumber(cards) == [i \in 1..Len(cards) |-> [cards[i] EXCEPT !.Position = i - 1]]

\* The slice left as it is.
RemoveAt_Keep(cards, idx) == cards

\* append(cards[:idx], cards[idx+1:]...), idx the 1-based index
RemoveAt(cards, idx) == SubSeq(cards, 1, idx - 1) \o SubSeq(cards, idx + 1, Len(cards))

\* The card put at the end, whatever the position.
InsertAt_Append(cards, pos, c) == Append(cards, c)

\* cards = append(cards, Card{}); copy(cards[pos+1:], cards[pos:]); cards[pos] = c
\* (pos the 0-based Go index)
InsertAt(cards, pos, c) == SubSeq(cards, 1, pos) \o <<c>> \o SubSeq(cards, pos + 1, Len(cards))

\* An out-of-range position snapped to the head of the list.
Clamp_ToHead(pos, n) == IF pos < 0 \/ pos > n THEN 0 ELSE pos

\* if req.ToPos < 0 || req.ToPos > len(to.Cards) { req.ToPos = len(to.Cards) }
Clamp(pos, n) == IF pos < 0 \/ pos > n THEN n ELSE pos

\* for i := range b.Lists { if b.Lists[i].ID == id { ...; break } }: the first
\* index with that ID, 0 (nil) when there is none.
FindList(lists, id) ==
  IF \E i \in 1..Len(lists) : lists[i].ID = id
  THEN CHOOSE i \in 1..Len(lists) : lists[i].ID = id /\ \A j \in 1..(i - 1) : lists[j].ID # id
  ELSE 0

\* for i := range from.Cards { if from.Cards[i].ID == id { ...; break } }
FindCard(cards, id) ==
  IF \E i \in 1..Len(cards) : cards[i].ID = id
  THEN CHOOSE i \in 1..Len(cards) : cards[i].ID = id /\ \A j \in 1..(i - 1) : cards[j].ID # id
  ELSE 0

\* ----------------------------------------------------------- persistence
\* json.Encoder.Encode(s.boards): the map of board pointers becomes an object
\* keyed by board id holding the boards by value, with the JSON field names.
EncCard(c) == [id |-> c.ID, title |-> c.Title, position |-> c.Position]

EncList(l) ==
  [id |-> l.ID, title |-> l.Title, position |-> l.Position,
   cards |-> [i \in 1..Len(l.Cards) |-> EncCard(l.Cards[i])]]

EncBoard(b) ==
  [id |-> b.ID, title |-> b.Title, events |-> b.Events,
   lists |-> [i \in 1..Len(b.Lists) |-> EncList(b.Lists[i])]]

Encode(bmap, hp) == [id \in DOMAIN bmap |-> EncBoard(hp[bmap[id]])]

\* What a board map held by value (no pointers) encodes to.
EncodeValues(vals) == [id \in DOMAIN vals |-> EncBoard(vals[id])]

\* A file is a sequence of chunks: Whole(s), the bytes of the JSON value s, or
\* Garbage, bytes that make up no JSON value (a snapshot cut short, say).
\* <<>> is the empty file: created or truncated, nothing written yet.
Whole(s) == [whole |-> TRUE, val |-> s]

Garbage == [whole |-> FALSE, val |-> <<>>]

\* The file holding the one buffer Encode wrote for the snapshot s.
FileOf(s) == <<Whole(s)>>

\* dec.Decode(&s.boards) reads one JSON value from the start of the file and
\* nothing of what follows it: it succeeds when the file begins with a whole
\* value, fails with io.EOF on an empty file and with a syntax error on
\* bytes that make up no value.
Loadable(content) == content # <<>> /\ content[1].whole

\* The board ids of a snapshot in the order Encode wrote them (map keys are
\* sorted), which is the order Decode makes the boards in.
RECURSIVE SortedIds(_)
SortedIds(S) ==
  IF S = {} THEN <<>>
  ELSE LET m == CHOOSE x \in S : \A y \in S : x <= y
       IN  <<m>> \o SortedIds(S \ {m})

\* The cards of the first n lists of an encoded board.
RECURSIVE CardsUpTo(_, _)
CardsUpTo(lists, n) == IF n = 0 THEN 0 ELSE CardsUpTo(lists, n - 1) + Len(lists[n].cards)

\* The cards of the boards ks[1], ..., ks[n] of the snapshot snap.
RECURSIVE CardsUpToBoard(_, _, _)
CardsUpToBoard(snap, ks, n) ==
  IF n = 0 THEN 0
  ELSE CardsUpToBoard(snap, ks, n - 1) + CardsUpTo(snap[ks[n]].lists, Len(snap[ks[n]].lists))

\* The Board a JSON object decodes to, field by field; base is the number of
\* Card values decoded before it.
DecBoard(eb, base) ==
  [ID |-> eb.id, Title |-> eb.title, Events |-> eb.events,
   Lists |-> [l \in 1..Len(eb.lists) |->
                [ID |-> eb.lists[l].id, Title |-> eb.lists[l].title,
                 Position |-> eb.lists[l].position,
                 Cards |-> [i \in 1..Len(eb.lists[l].cards) |->
                              [ID |-> eb.lists[l].cards[i].id,
                               Title |-> eb.lists[l].cards[i].title,
                               Position |-> eb.lists[l].cards[i].position,
                               uid |-> base + CardsUpTo(eb.lists, l - 1) + i]]]]]

\* What Decode makes of the snapshot snap: the Board objects (hp) and the map
\* from the keys of the JSON object to them (bm).
Decode(snap) ==
  LET ks == SortedIds(DOMAIN snap)
  IN  [hp |-> [a \in 1..Len(ks) |-> DecBoard(snap[ks[a]], CardsUpToBoard(snap, ks, a - 1))],
       bm |-> [id \in DOMAIN snap |-> CHOOSE a \in 1..Len(ks) : ks[a] = id]]

\* The cards of a board.
CardsOf(b) == UNION {{b.Lists[i].Cards[j] : j \in 1..Len(b.Lists[i].Cards)} : i \in 1..Len(b.Lists)}

\* ------------------------------------------------ the move, as pure steps
\* from.Cards = append(from.Cards[:idx], from.Cards[idx+1:]...)   (line 310)
MvRemoveStep(b, f, idx) == [b EXCEPT !.Lists[f].Cards = RemoveAt(@, idx)]

\* The renumbering loop left out.
MvRenumberStep_Skipped(b, f) == b

\* for i := range from.Cards { from.Cards[i].Position = i }   (lines 311-313)
MvRenumberStep(b, f) == [b EXCEPT !.Lists[f].Cards = Renumber(@)]

\* lines 326-331: clamp, then insert c into to.Cards
MvInsertStep(b, t, pos, c) ==
  [b EXCEPT !.Lists[t].Cards = InsertAt(@, Clamp(pos, Len(@)), c)]

\* lines 332-335: renumber the destination, b.Events++
MvFinishStep(b, t) ==
  [b EXCEPT !.Lists[t].Cards = Renumber(@), !.Events = @ + 1]

\* Lines 310-335 run to the end on a board value: f, idx the source list and
\* the card's index in it, toID the destination list's id.
MoveApply(b, f, idx, toID, pos) ==
  LET c  == b.Lists[f].Cards[idx]
      b1 == MvRenumberStep(MvRemoveStep(b, f, idx), f)
      t  == FindList(b1.Lists, toID)
  IN  IF t = 0 THEN b1 ELSE MvFinishStep(MvInsertStep(b1, t, pos, c), t)

\* ------------------------------------------------------------------ state
VARIABLES
  heap,       \* the Board objects, by address (1..Len(heap))
  boards,     \* Store.boards: board id -> address of its Board
  streams,    \* Store.streams: board id -> set of subscriber channels
  chans,      \* the channels made by subscribe: [buf, closed, log]
  writer,     \* Store.mu: the process holding Lock(), 0 if none
  readers,    \* Store.mu: the processes holding RLock()
  now,        \* the last value time.Now().UnixNano() returned
  nuid,       \* Card values made so far
  pc,         \* each handler's position
  loc,        \* each handler's locals
  tmpIno,     \* the inode s.path + ".tmp" names, 0 if the name is free
  finalIno,   \* the inode s.path names, 0 if the name is free
  inodes,     \* the content of each inode
  reqs,       \* requests the run may still start
  out,        \* the response the last step wrote, NoOut if it wrote none
  ideal,      \* the boards by value as the successful mutations alone make them
  committed   \* the encoded ideal store after each successful mutation, in order

vars ==
  <<heap, boards, streams, chans, writer, readers, now, nuid, pc, loc,
    tmpIno, finalIno, inodes, reqs, out, ideal, committed>>

NoMsg == [typ |-> "none", board |-> 0, seq |-> 0, id |-> 0, to |-> 0, pos |-> 0]

\* {"type": typ, "data": ...}; seq is not part of the message: it is the
\* number of the commit the message announces.
Msg(typ, board, seq, id, to, pos) ==
  [typ |-> typ, board |-> board, seq |-> seq, id |-> id, to |-> to, pos |-> pos]

IdleLoc ==
  [op |-> "none", board |-> 0, bptr |-> 0, from |-> 0, idx |-> 0, to |-> 0, toPos |-> 0,
   reqPos |-> 0,
   card |-> NoCard, src |-> MkBoard(0, <<>>, 0), todo |-> {}, msg |-> NoMsg, ch |-> 0,
   fd |-> 0, ptrs |-> {}]

NoOut == [p |-> 0, op |-> "none", code |-> 0, body |-> {}]

Procs == DOMAIN pc

Inodes == DOMAIN inodes

\* ------------------------------------------------------- startup snapshots
SeedCards(first, n) == [i \in 1..n |-> MkCard(first + i - 1, i - 1, first + i - 1)]

\* One board with two lists holding cards 1..k and k+1..n.
SeedBoard(n, k) ==
  MkBoard(1, <<MkList(1, 0, SeedCards(1, k)), MkList(2, 1, SeedCards(k + 1, n - k))>>, 2 + n)

Seeds ==
  {<<>>} \cup
  {<<SeedBoard(nk[1], nk[2])>> :
     nk \in {x \in (0..MaxSeedCards) \X (0..MaxSeedCards) : x[2] <= x[1]}}

\* main: NewStore, then load() of the snapshot the store directory holds (none:
\* the store starts empty).
InitFrom(procs, budget, seed) ==
  /\ heap = seed
  /\ boards = [id \in {seed[a].ID : a \in DOMAIN seed} |-> CHOOSE a \in DOMAIN seed : seed[a].ID = id]
  /\ streams = <<>>
  /\ chans = <<>>
  /\ writer = 0
  /\ readers = {}
  /\ now = MaxSeedCards + 2
  /\ nuid = IF seed = <<>> THEN 0 ELSE Cardinality(CardsOf(seed[1]))
  /\ pc = [p \in procs |-> "idle"]
  /\ loc = [p \in procs |-> IdleLoc]
  /\ tmpIno = 0
  /\ finalIno = IF seed = <<>> THEN 0 ELSE 1
  /\ inodes = [i \in 1..(Cardinality(procs) + 2) |->
                 IF i = 1 /\ seed # <<>> THEN FileOf(Encode(boards, heap)) ELSE <<>>]
  /\ reqs = budget
  /\ out = NoOut
  /\ ideal = [id \in DOMAIN boards |-> heap[boards[id]]]
  /\ committed = <<Encode(boards, heap)>>

\* The goroutines net/http runs the handlers on.
Handlers == {1, 2}

Init == \E seed \in Seeds : InitFrom(Handlers, MaxReqs, seed)

\* ------------------------------------------------------------ Store.mu
\* A Lock() that does not wait for the readers.
CanLock_NoWait == writer = 0

\* Lock() returns once no goroutine holds the mutex; RLock() once no writer does.
CanLock == writer = 0 /\ readers = {}

CanRLock == writer = 0

\* ------------------------------------------------------ request inputs
\* parseID gives 0 for a board id that is no number; no board has id 0.
BoardArgs == DOMAIN boards \cup {0}

ListIDs(bid) ==
  IF bid \in DOMAIN boards
  THEN {heap[boards[bid]].Lists[i].ID : i \in 1..Len(heap[boards[bid]].Lists)}
  ELSE {}

CardIDs(bid) ==
  IF bid \in DOMAIN boards THEN {c.ID : c \in CardsOf(heap[boards[bid]])} ELSE {}

PosArgs(bid) ==
  IF bid \in DOMAIN boards THEN -1..(Cardinality(CardsOf(heap[boards[bid]])) + 1) ELSE {0}

Titles == {"", "t"}

\* time.Now().UnixNano(): the last value again, or a later one.
ClockReads == {now, now + 1}

\* rand.Intn(1000), cut down to its two smallest values.
Jitters == {0, 1}

\* A clock that has moved on between any two readings, and no jitter: the
\* ids of a run in which no two identifiers collide.
FreshReads == {now + 1}

NoJitter == {0}

\* writeJSON(w, code, body) and return: the handler's locals are gone.
Respond(p, op, code, body) ==
  /\ pc' = [pc EXCEPT ![p] = "idle"]
  /\ loc' = [loc EXCEPT ![p] = IdleLoc]
  /\ out' = [p |-> p, op |-> op, code |-> code, body |-> body]

Goto(p, label, locals) ==
  /\ pc' = [pc EXCEPT ![p] = label]
  /\ loc' = [loc EXCEPT ![p] = locals]
  /\ out' = NoOut

\* The server hands an idle handler the next request.
Start(p) == pc[p] = "idle" /\ reqs > 0 /\ reqs' = reqs - 1

\* The successful mutation that made the ideal store newIdeal.
Commit(newIdeal) ==
  /\ ideal' = newIdeal
  /\ committed' = Append(committed, EncodeValues(newIdeal))

MapPut(f, k, v) == [x \in DOMAIN f \cup {k} |-> IF x = k THEN v ELSE f[x]]

fsVars == <<tmpIno, finalIno, inodes>>

fanVars == <<streams, chans>>

lockVars == <<writer, readers>>

treeVars == <<heap, boards, now, nuid, ideal, committed>>

\* ------------------------------------------------------------ createBoard
\* Lines 157-165; titles and ticks are the titles the requests may carry and
\* the values the clock may return.
CreateBoardOn(p, titles, ticks) ==
  /\ Start(p)
  /\ \E title \in titles, t \in ticks :
       IF title = ""
       THEN /\ Respond(p, "createBoard", 400, {})
            /\ UNCHANGED <<treeVars, lockVars>>
       ELSE /\ CanLock
            /\ now' = t
            /\ heap' = Append(heap, MkBoard(t, <<>>, 0))
            /\ boards' = MapPut(boards, t, Len(heap) + 1)
            /\ Commit(MapPut(ideal, t, MkBoard(t, <<>>, 0)))
            /\ Goto(p, "sv_rlock", [IdleLoc EXCEPT !.op = "createBoard", !.board = t])
            /\ UNCHANGED <<nuid, lockVars>>
  /\ UNCHANGED <<fsVars, fanVars>>

CreateBoard(p) == CreateBoardOn(p, Titles, ClockReads)

\* ------------------------------------------------------------- createList
\* Lines 187-203.
CreateListOn(p, bids, titles, ticks) ==
  /\ Start(p)
  /\ \E bid \in bids, title \in titles, t \in ticks :
       IF title = ""
       THEN /\ Respond(p, "createList", 400, {})
            /\ UNCHANGED treeVars
       ELSE /\ CanLock
            /\ IF bid \notin DOMAIN boards
               THEN /\ Respond(p, "createList", 404, {})
                    /\ UNCHANGED treeVars
               ELSE LET a   == boards[bid]
                        lst == MkList(t, Len(heap[a].Lists), <<>>)
                        il  == MkList(t, Len(ideal[bid].Lists), <<>>)
                    IN  /\ now' = t
                        /\ heap' = [heap EXCEPT ![a].Lists = Append(@, lst), ![a].Events = @ + 1]
                        /\ Commit([ideal EXCEPT ![bid].Lists = Append(@, il), ![bid].Events = @ + 1])
                        /\ Goto(p, "sv_rlock",
                                [IdleLoc EXCEPT !.op = "createList", !.board = bid,
                                   !.msg = Msg("list.created", bid, Len(committed), t, 0, lst.Position)])
                        /\ UNCHANGED <<boards, nuid>>
  /\ UNCHANGED <<lockVars, fsVars, fanVars>>

CreateList(p) == CreateListOn(p, BoardArgs, Titles, ClockReads)

\* ------------------------------------------------------------- createCard
\* Lines 231-258.  The action starts from the decoded request: `title' is the
\* value of req.Title after line 231.  (Both fields of the request struct at
\* lines 227-230 carry the tag json:"title", which encoding/json resolves by
\* ignoring both, so over HTTP only the "" case of Titles arises; cards of a
\* running store then come from the loaded snapshot, as in SeedBoard.)
CreateCardOn(p, bids, titles, ticks, jitters) ==
  /\ Start(p)
  /\ \E bid \in bids, title \in titles, t \in ticks, j \in jitters :
     \E lid \in ListIDs(bid) \cup {0} :
       IF title = ""
       THEN /\ Respond(p, "createCard", 400, {})
            /\ UNCHANGED treeVars
       ELSE /\ CanLock
            /\ IF bid \notin DOMAIN boards \/ FindList(heap[boards[bid]].Lists, lid) = 0
               THEN /\ Respond(p, "createCard", 404, {})
                    /\ UNCHANGED treeVars
               ELSE LET a    == boards[bid]
                        l    == FindList(heap[a].Lists, lid)
                        card == MkCard(t + j, Len(heap[a].Lists[l].Cards), nuid + 1)
                        il   == FindList(ideal[bid].Lists, lid)
                        ic   == MkCard(t + j, Len(ideal[bid].Lists[il].Cards), nuid + 1)
                    IN  /\ now' = t
                        /\ nuid' = nuid + 1
                        /\ heap' = [heap EXCEPT ![a].Lists[l].Cards = Append(@, card), ![a].Events = @ + 1]
                        /\ Commit([ideal EXCEPT ![bid].Lists[il].Cards = Append(@, ic), ![bid].Events = @ + 1])
                        /\ Goto(p, "sv_rlock",
                                [IdleLoc EXCEPT !.op = "createCard", !.board = bid,
                                   !.msg = Msg("card.created", bid, Len(committed), card.ID, lid, card.Position)])
                        /\ UNCHANGED boards
  /\ UNCHANGED <<lockVars, fsVars, fanVars>>

CreateCard(p) == CreateCardOn(p, BoardArgs, Titles, ClockReads, Jitters)

\* --------------------------------------------------------------- moveCard
\* Lines 277-309: Lock (unlocked by the deferred Unlock on every return), then
\* resolve the board, the source list and the card.
MoveLock(p) ==
  /\ Start(p)
  /\ CanLock
  /\ \E bid \in BoardArgs :
     \E cid \in CardIDs(bid) \cup {0}, fromID \in ListIDs(bid) \cup {0},
        toID \in ListIDs(bid) \cup {0}, toPos \in PosArgs(bid) :
       LET a   == IF bid \in DOMAIN boards THEN boards[bid] ELSE 0
           f   == IF a = 0 THEN 0 ELSE FindList(heap[a].Lists, fromID)
           idx == IF f = 0 THEN 0 ELSE FindCard(heap[a].Lists[f].Cards, cid)
       IN  IF idx = 0
           THEN /\ Respond(p, "move", 404, {})
                /\ UNCHANGED writer
           ELSE /\ writer' = p
                /\ Goto(p, "mv_remove",
                        [IdleLoc EXCEPT !.op = "move", !.board = bid, !.bptr = a, !.from = f,
                           !.idx = idx, !.card = heap[a].Lists[f].Cards[idx], !.to = toID,
                           !.toPos = toPos, !.reqPos = toPos, !.src = heap[a]])
  /\ UNCHANGED <<treeVars, readers, fsVars, fanVars>>

\* Line 310.
MoveRemove(p) ==
  /\ pc[p] = "mv_remove"
  /\ heap' = [heap EXCEPT ![loc[p].bptr] = MvRemoveStep(@, loc[p].from, loc[p].idx)]
  /\ Goto(p, "mv_renumber", loc[p])
  /\ UNCHANGED <<boards, now, nuid, ideal, committed, lockVars, fsVars, fanVars, reqs>>

\* Lines 311-313.
MoveRenumber(p) ==
  /\ pc[p] = "mv_renumber"
  /\ heap' = [heap EXCEPT ![loc[p].bptr] = MvRenumberStep(@, loc[p].from)]
  /\ Goto(p, "mv_target", loc[p])
  /\ UNCHANGED <<boards, now, nuid, ideal, committed, lockVars, fsVars, fanVars, reqs>>

\* Lines 315-331: resolve the destination; without one return 404 (and unlock),
\* else clamp the position and insert the card.
MoveTarget(p) ==
  /\ pc[p] = "mv_target"
  /\ LET a == loc[p].bptr
         t == FindList(heap[a].Lists, loc[p].to)
     IN  IF t = 0
         THEN /\ writer' = 0
              /\ Respond(p, "move", 404, {})
              /\ UNCHANGED heap
         ELSE /\ heap' = [heap EXCEPT ![a] = MvInsertStep(@, t, loc[p].toPos, loc[p].card)]
              /\ Goto(p, "mv_finish",
                      [loc[p] EXCEPT !.toPos = Clamp(loc[p].toPos, Len(heap[a].Lists[t].Cards))])
              /\ UNCHANGED writer
  /\ UNCHANGED <<boards, now, nuid, ideal, committed, readers, fsVars, fanVars, reqs>>

\* Lines 332-335, and the arguments of the broadcast of line 338.
MoveFinish(p) ==
  /\ pc[p] = "mv_finish"
  /\ LET a   == loc[p].bptr
         t   == FindList(heap[a].Lists, loc[p].to)
         bid == loc[p].board
         ib  == ideal[bid]
         jf  == FindList(ib.Lists, heap[a].Lists[loc[p].from].ID)
         jc  == IF jf = 0 THEN 0 ELSE FindCard(ib.Lists[jf].Cards, loc[p].card.ID)
     IN  /\ heap' = [heap EXCEPT ![a] = MvFinishStep(@, t)]
         /\ Commit(IF jc = 0 THEN ideal
                   ELSE [ideal EXCEPT ![bid] = MoveApply(ib, jf, jc, loc[p].to, loc[p].reqPos)])
         /\ Goto(p, "sv_rlock",
                 [loc[p] EXCEPT !.msg = Msg("card.moved", bid, Len(committed),
                                            loc[p].card.ID, loc[p].to, loc[p].toPos)])
  /\ UNCHANGED <<boards, now, nuid, lockVars, fsVars, fanVars, reqs>>

\* ------------------------------------------------------------- Store.save
\* Line 75: s.mu.RLock().
SaveRLock(p) ==
  /\ pc[p] = "sv_rlock"
  /\ CanRLock
  /\ readers' = readers \cup {p}
  /\ Goto(p, "sv_create", loc[p])
  /\ UNCHANGED <<treeVars, writer, fsVars, fanVars, reqs>>

OpenFds == {loc[q].fd : q \in Procs} \ {0}

\* The inodes no name and no open file refers to hold nothing.
FsCollect(ino, names, fds) == [i \in Inodes |-> IF i \in names \cup fds THEN ino[i] ELSE <<>>]

\* The lowest inode that neither a name nor an open file refers to.
FreeInode ==
  CHOOSE x \in Inodes :
    /\ x \notin {finalIno} \cup OpenFds
    /\ \A y \in Inodes : y < x => y \in {finalIno} \cup OpenFds

\* Line 81: os.Create(tmp) opens the file the name refers to, emptied, or a
\* new file under that name.
SaveCreate(p) ==
  /\ pc[p] = "sv_create"
  /\ LET i == IF tmpIno # 0 THEN tmpIno ELSE FreeInode
     IN  /\ tmpIno' = i
         /\ inodes' = [inodes EXCEPT ![i] = <<>>]
         /\ Goto(p, "sv_write", [loc[p] EXCEPT !.fd = i])
  /\ UNCHANGED <<treeVars, lockVars, finalIno, fanVars, reqs>>

\* Line 87: enc.Encode(s.boards) writes the encoded store to the open file,
\* in one Write at offset 0.
SaveWrite(p) ==
  /\ pc[p] = "sv_write"
  /\ inodes' = [inodes EXCEPT ![loc[p].fd] = FileOf(Encode(boards, heap))]
  /\ Goto(p, "sv_rename", loc[p])
  /\ UNCHANGED <<treeVars, lockVars, tmpIno, finalIno, fanVars, reqs>>

\* Lines 91-92 and the deferred RUnlock: f.Close(), os.Rename(tmp, s.path) (an
\* error when the name tmp is gone; the callers drop it), then back in the
\* caller: createBoard answers, the others go on to broadcast.
SaveRename(p) ==
  /\ pc[p] = "sv_rename"
  /\ tmpIno' = 0
  /\ finalIno' = IF tmpIno # 0 THEN tmpIno ELSE finalIno
  /\ inodes' = FsCollect(inodes, {finalIno'}, {loc[q].fd : q \in Procs \ {p}} \ {0})
  /\ readers' = readers \ {p}
  /\ IF loc[p].op = "createBoard"
     THEN Respond(p, "createBoard", 201, {})
     ELSE Goto(p, "bc_rlock", [loc[p] EXCEPT !.fd = 0])
  /\ UNCHANGED <<treeVars, writer, fanVars, reqs>>

\* -------------------------------------------------------- Store.broadcast
\* One registry for all boards.
StreamOf_Any(bid) == UNION {streams[b] : b \in DOMAIN streams}

StreamOf(bid) == IF bid \in DOMAIN streams THEN streams[bid] ELSE {}

\* The handler's answer once its broadcast is over; moveCard's deferred
\* Unlock runs as it returns.
Answer(p) ==
  /\ Respond(p, loc[p].op, IF loc[p].op = "move" THEN 200 ELSE 201, {})
  /\ writer' = IF loc[p].op = "move" THEN 0 ELSE writer

\* Lines 103-104: RLock, subs := s.streams[boardID]; with no subscriber the
\* loop is empty and line 111 unlocks.
BcastRLock(p) ==
  /\ pc[p] = "bc_rlock"
  /\ CanRLock
  /\ IF StreamOf(loc[p].board) = {}
     THEN /\ Answer(p)
          /\ UNCHANGED readers
     ELSE /\ readers' = readers \cup {p}
          /\ Goto(p, "bc_send", [loc[p] EXCEPT !.todo = StreamOf(loc[p].board)])
          /\ UNCHANGED writer
  /\ UNCHANGED <<treeVars, fsVars, fanVars, reqs>>

\* The send with the capacity test off by one.
TrySend_OffByOne(c, m) ==
  IF Len(c.buf) <= QueueCap
  THEN [c EXCEPT !.buf = Append(@, m), !.log = Append(@, m.seq)]
  ELSE c

\* select { case ch <- b: default: }
TrySend(c, m) ==
  IF Len(c.buf) < QueueCap
  THEN [c EXCEPT !.buf = Append(@, m), !.log = Append(@, m.seq)]
  ELSE c

\* Lines 105-111: one turn of the loop over subs (a map: any order), and the
\* RUnlock after the last.
BcastSend(p) ==
  /\ pc[p] = "bc_send"
  /\ \E ch \in loc[p].todo :
       /\ chans' = [chans EXCEPT ![ch] = TrySend(@, loc[p].msg)]
       /\ IF loc[p].todo = {ch}
          THEN /\ readers' = readers \ {p}
               /\ Answer(p)
          ELSE /\ Goto(p, "bc_send", [loc[p] EXCEPT !.todo = @ \ {ch}])
               /\ UNCHANGED lockVars
  /\ UNCHANGED <<treeVars, fsVars, streams, reqs>>

\* ---------------------------------------------------- getBoard, listBoards
\* Lines 213-215: the pointer is read under RLock, which is released at once.
GetBoard(p) ==
  /\ Start(p)
  /\ CanRLock
  /\ \E bid \in BoardArgs :
       Goto(p, "gb_encode",
            [IdleLoc EXCEPT !.op = "getBoard", !.board = bid,
               !.bptr = IF bid \in DOMAIN boards THEN boards[bid] ELSE 0])
  /\ UNCHANGED <<treeVars, lockVars, fsVars, fanVars>>

\* Lines 216-220: writeJSON(w, 200, b) reads the Board behind the pointer,
\* with no lock held.
GetBoardEncode(p) ==
  /\ pc[p] = "gb_encode"
  /\ IF loc[p].bptr = 0
     THEN Respond(p, "getBoard", 404, {})
     ELSE Respond(p, "getBoard", 200, {EncBoard(heap[loc[p].bptr])})
  /\ UNCHANGED <<treeVars, lockVars, fsVars, fanVars, reqs>>

\* Lines 172-177: the pointers of all boards are copied under RLock.
ListBoards(p) ==
  /\ Start(p)
  /\ CanRLock
  /\ Goto(p, "lb_encode",
          [IdleLoc EXCEPT !.op = "listBoards", !.ptrs = {boards[id] : id \in DOMAIN boards}])
  /\ UNCHANGED <<treeVars, lockVars, fsVars, fanVars>>

\* Line 178: writeJSON(w, 200, out), with no lock held.
ListBoardsEncode(p) ==
  /\ pc[p] = "lb_encode"
  /\ Respond(p, "listBoards", 200, {EncBoard(heap[a]) : a \in loc[p].ptrs})
  /\ UNCHANGED <<treeVars, lockVars, fsVars, fanVars, reqs>>

\* --------------------------------------------------- events and subscribe
\* Lines 355 and 115-121: a new channel, registered under Lock.
EvSubscribeOn(p, bids) ==
  /\ Start(p)
  /\ CanLock
  /\ \E bid \in bids :
       /\ chans' = Append(chans, [buf |-> <<>>, closed |-> FALSE, log |-> <<>>])
       /\ streams' = MapPut(streams, bid, StreamOf(bid) \cup {Len(chans) + 1})
       /\ Goto(p, "ev_loop", [IdleLoc EXCEPT !.op = "events", !.board = bid, !.ch = Len(chans) + 1])
  /\ UNCHANGED <<treeVars, lockVars, fsVars>>

EvSubscribe(p) == EvSubscribeOn(p, BoardArgs)

\* Lines 365-372: case msg, ok := <-ch.
EvRecv(p) ==
  /\ pc[p] = "ev_loop"
  /\ chans[loc[p].ch].buf # <<>>
  /\ chans' = [chans EXCEPT ![loc[p].ch].buf = Tail(@)]
  /\ Goto(p, "ev_loop", loc[p])
  /\ UNCHANGED <<treeVars, lockVars, fsVars, streams, reqs>>

\* Lines 377-378: case <-r.Context().Done(): return.
EvCtxDone(p) ==
  /\ pc[p] = "ev_loop"
  /\ Goto(p, "ev_cancel", loc[p])
  /\ UNCHANGED <<treeVars, lockVars, fsVars, fanVars, reqs>>

\* Lines 122-127, the deferred cancel(): under Lock, delete and close.
EvCancel(p) ==
  /\ pc[p] = "ev_cancel"
  /\ CanLock
  /\ streams' = [streams EXCEPT ![loc[p].board] = @ \ {loc[p].ch}]
  /\ chans' = [chans EXCEPT ![loc[p].ch].closed = TRUE]
  /\ Respond(p, "events", 200, {})
  /\ UNCHANGED <<treeVars, lockVars, fsVars, reqs>>

\* ------------------------------------------------------ main, Store.load
\* The process before main has called load: nothing is served yet.
Booting == \A p \in Procs : pc[p] = "boot"

\* load returned nil with the boards d.hp under the keys d.bm: main goes on
\* to http.ListenAndServe, the handlers take requests.
Serve(d) ==
  /\ heap' = d.hp
  /\ boards' = d.bm
  /\ nuid' = CardsUpToBoard([a \in DOMAIN d.hp |-> EncBoard(d.hp[a])], [a \in DOMAIN d.hp |-> a], Len(d.hp))
  /\ ideal' = [id \in DOMAIN d.bm |-> d.hp[d.bm[id]]]
  /\ committed' = <<Encode(d.bm, d.hp)>>
  /\ pc' = [p \in Procs |-> "idle"]

\* load returned an error: log.Fatal ends the process.
Exit ==
  /\ pc' = [p \in Procs |-> "exited"]
  /\ UNCHANGED <<heap, boards, nuid, ideal, committed>>

\* Lines 389-391 and 59-72: os.Open fails with ErrNotExist when the path names
\* no file (load returns nil, the store stays empty) and may fail for another
\* reason when it names one (load returns the error); else Decode.
Load ==
  /\ Booting
  /\ \E opens \in BOOLEAN :
       IF finalIno = 0 THEN Serve([hp |-> <<>>, bm |-> <<>>])
       ELSE IF ~opens \/ ~Loadable(inodes[finalIno]) THEN Exit
       ELSE Serve(Decode(inodes[finalIno][1].val))
  /\ UNCHANGED <<streams, chans, lockVars, now, loc, fsVars, reqs, out>>

\* The process is killed, or has exited, and is started again: its memory is
\* gone, its open files are closed, the files stay as they are.
Restart ==
  /\ ~Booting
  /\ reqs > 0 /\ reqs' = reqs - 1
  /\ heap' = <<>> /\ boards' = <<>> /\ streams' = <<>> /\ chans' = <<>>
  /\ writer' = 0 /\ readers' = {}
  /\ nuid' = 0 /\ ideal' = <<>> /\ committed' = <<>>
  /\ pc' = [p \in Procs |-> "boot"]
  /\ loc' = [p \in Procs |-> IdleLoc]
  /\ out' = NoOut
  /\ inodes' = FsCollect(inodes, {finalIno, tmpIno}, {})
  /\ UNCHANGED <<now, tmpIno, finalIno>>

\* --------------------------------------------------------- specifications
Next ==
  \/ \E p \in Procs : CreateBoard(p)
  \/ \E p \in Procs : CreateList(p)
  \/ \E p \in Procs : CreateCard(p)
  \/ \E p \in Procs : MoveLock(p)
  \/ \E p \in Procs : MoveRemove(p)
  \/ \E p \in Procs : MoveRenumber(p)
  \/ \E p \in Procs : MoveTarget(p)
  \/ \E p \in Procs : MoveFinish(p)
  \/ \E p \in Procs : SaveRLock(p)
  \/ \E p \in Procs : SaveCreate(p)
  \/ \E p \in Procs : SaveWrite(p)
  \/ \E p \in Procs : SaveRename(p)
  \/ \E p \in Procs : BcastRLock(p)
  \/ \E p \in Procs : BcastSend(p)
  \/ \E p \in Procs : GetBoard(p)
  \/ \E p \in Procs : GetBoardEncode(p)
  \/ \E p \in Procs : ListBoards(p)
  \/ \E p \in Procs : ListBoardsEncode(p)
  \/ \E p \in Procs : EvSubscribe(p)
  \/ \E p \in Procs : EvRecv(p)
  \/ \E p \in Procs : EvCtxDone(p)
  \/ \E p \in Procs : EvCancel(p)

Spec == Init /\ [][Next]_vars

\* The calls that change cards: createList, createCard and moveCard, with
\* identifiers that do not collide.
TreeNext ==
  \/ \E p \in Procs : CreateListOn(p, BoardArgs, Titles, FreshReads)
  \/ \E p \in Procs : CreateCardOn(p, BoardArgs, Titles, FreshReads, NoJitter)
  \/ \E p \in Procs : MoveLock(p)
  \/ \E p \in Procs : MoveRemove(p)
  \/ \E p \in Procs : MoveRenumber(p)
  \/ \E p \in Procs : MoveTarget(p)
  \/ \E p \in Procs : MoveFinish(p)
  \/ \E p \in Procs : SaveRLock(p)
  \/ \E p \in Procs : SaveCreate(p)
  \/ \E p \in Procs : SaveWrite(p)
  \/ \E p \in Procs : SaveRename(p)
  \/ \E p \in Procs : BcastRLock(p)

SpecTree == Init /\ [][TreeNext]_vars

\* The steps of a handler that is serving a request.
Continue(p) ==
  \/ MoveRemove(p) \/ MoveRenumber(p) \/ MoveTarget(p) \/ MoveFinish(p)
  \/ SaveRLock(p) \/ SaveCreate(p) \/ SaveWrite(p) \/ SaveRename(p)
  \/ BcastRLock(p)

\* A handler that can go on infinitely often does: the Go scheduler runs
\* every runnable goroutine, and sync.RWMutex hands the lock to a waiter (its
\* starvation mode) once it is released.  Nothing makes a request arrive.
\* The same calls on the loaded board whose lists hold one card each.
FairTree ==
  /\ InitFrom(Handlers, MaxReqs, <<SeedBoard(2, 1)>>)
  /\ [][TreeNext]_vars
  /\ \A p \in Handlers : SF_vars(Continue(p))

\* Fan-out workloads on board 1 of a loaded snapshot: the handlers of Subs
\* serve /boards/1/events, the others POST lists to board 1.
FanSeed == <<SeedBoard(0, 0)>>

\* The steps of the handlers that create lists on board 1.
FanMutate(subs) ==
  \/ \E p \in Procs \ subs : CreateListOn(p, {1}, {"t"}, FreshReads)
  \/ \E p \in Procs \ subs : SaveRLock(p)
  \/ \E p \in Procs \ subs : SaveCreate(p)
  \/ \E p \in Procs \ subs : SaveWrite(p)
  \/ \E p \in Procs \ subs : SaveRename(p)
  \/ \E p \in Procs \ subs : BcastRLock(p)
  \/ \E p \in Procs \ subs : BcastSend(p)

\* One subscriber that may leave, two handlers creating lists.
OrderNext ==
  \/ EvSubscribeOn(1, {1})
  \/ EvRecv(1)
  \/ EvCtxDone(1)
  \/ EvCancel(1)
  \/ FanMutate({1})

SpecOrder == InitFrom({1, 2, 3}, OrderReqs, FanSeed) /\ [][OrderNext]_vars

\* Two subscribers that stay and one handler creating lists, long enough to
\* fill a queue: the client of subscriber 1 reads nothing (the handler sits in
\* writer.Flush() or is not scheduled), subscriber 2 keeps receiving.
FullNext ==
  \/ \E p \in {1, 2} : EvSubscribeOn(p, {1})
  \/ EvRecv(2)
  \/ FanMutate({1, 2})

SpecFull == InitFrom({1, 2, 3}, FullReqs, FanSeed) /\ [][FullNext]_vars

\* Every mutating call, with a clock that may return the same value twice and
\* a jitter that may repeat: the runs in which identifiers can collide.
IdNext ==
  \/ \E p \in Procs : CreateBoard(p)
  \/ \E p \in Procs : CreateList(p)
  \/ \E p \in Procs : CreateCard(p)
  \/ \E p \in Procs : MoveLock(p)
  \/ \E p \in Procs : MoveRemove(p)
  \/ \E p \in Procs : MoveRenumber(p)
  \/ \E p \in Procs : MoveTarget(p)
  \/ \E p \in Procs : MoveFinish(p)
  \/ \E p \in Procs : SaveRLock(p)
  \/ \E p \in Procs : SaveCreate(p)
  \/ \E p \in Procs : SaveWrite(p)
  \/ \E p \in Procs : SaveRename(p)
  \/ \E p \in Procs : BcastRLock(p)

\* The loaded board holds one card, in its first list.
IdSeed == <<SeedBoard(1, 1)>>

SpecIds == InitFrom(Handlers, IdReqs, IdSeed) /\ [][IdNext]_vars

\* One client that sends its calls one after the other to a store that
\* started empty: createBoard, createList, createCard and moveCard, with
\* identifiers that do not collide.
SerialNext ==
  \/ CreateBoardOn(1, {"t"}, FreshReads)
  \/ CreateListOn(1, BoardArgs, {"t"}, FreshReads)
  \/ CreateCardOn(1, BoardArgs, {"t"}, FreshReads, NoJitter)
  \/ MoveLock(1)
  \/ MoveRemove(1)
  \/ MoveRenumber(1)
  \/ MoveTarget(1)
  \/ MoveFinish(1)
  \/ SaveRLock(1)
  \/ SaveCreate(1)
  \/ SaveWrite(1)
  \/ SaveRename(1)
  \/ BcastRLock(1)

SpecSerial == InitFrom({1}, SerialReqs, <<>>) /\ [][SerialNext]_vars

\* A subscriber of board 1 that may leave (handler 1) next to a client that
\* creates lists on board 1 and moves its card (handler 2).
CancelNext ==
  \/ EvSubscribeOn(1, {1})
  \/ EvRecv(1)
  \/ EvCtxDone(1)
  \/ EvCancel(1)
  \/ CreateListOn(2, {1}, {"t"}, FreshReads)
  \/ MoveLock(2)
  \/ MoveRemove(2)
  \/ MoveRenumber(2)
  \/ MoveTarget(2)
  \/ MoveFinish(2)
  \/ SaveRLock(2)
  \/ SaveCreate(2)
  \/ SaveWrite(2)
  \/ SaveRename(2)
  \/ BcastRLock(2)
  \/ BcastSend(2)

\* The steps a handler takes on its own once it serves a request or its
\* request's context is done: they wait for nothing but the mutex.
Proceed(p) == Continue(p) \/ BcastSend(p) \/ EvCancel(p)

\* Every handler that can go on infinitely often does (see FairTree); nothing
\* makes a request arrive, a client read or a client leave.
FairCancel ==
  /\ InitFrom(Handlers, CancelReqs, IdSeed)
  /\ [][CancelNext]_vars
  /\ \A p \in Handlers : SF_vars(Proceed(p))

\* What the store directory may hold when the process starts: nothing, or a
\* file that is empty, garbage, a snapshot, or a snapshot followed by garbage.
SnapOf(seed) == EncodeValues([id \in {seed[a].ID : a \in DOMAIN seed} |->
                                seed[CHOOSE a \in DOMAIN seed : seed[a].ID = id]])

LoadSnaps == {SnapOf(seed) : seed \in Seeds}

LoadDisks ==
  {[exists |-> FALSE, content |-> <<>>]} \cup
  {[exists |-> TRUE, content |-> c] :
     c \in {<<>>, <<Garbage>>} \cup {FileOf(sn) : sn \in LoadSnaps}
            \cup {FileOf(sn) \o <<Garbage>> : sn \in LoadSnaps}}

\* The process as the operating system starts it.
InitBoot(procs, budget, disk) ==
  /\ heap = <<>>
  /\ boards = <<>>
  /\ streams = <<>>
  /\ chans = <<>>
  /\ writer = 0
  /\ readers = {}
  /\ now = MaxSeedCards + 2
  /\ nuid = 0
  /\ pc = [p \in procs |-> "boot"]
  /\ loc = [p \in procs |-> IdleLoc]
  /\ tmpIno = 0
  /\ finalIno = IF disk.exists THEN 1 ELSE 0
  /\ inodes = [i \in 1..(Cardinality(procs) + 2) |->
                 IF i = 1 /\ disk.exists THEN disk.content ELSE <<>>]
  /\ reqs = budget
  /\ out = NoOut
  /\ ideal = <<>>
  /\ committed = <<>>

\* Startup, then clients that create boards and read them, and restarts.
LoadNext ==
  \/ Load
  \/ Restart
  \/ \E p \in Procs : CreateBoardOn(p, {"t"}, FreshReads)
  \/ \E p \in Procs : SaveRLock(p)
  \/ \E p \in Procs : SaveCreate(p)
  \/ \E p \in Procs : SaveWrite(p)
  \/ \E p \in Procs : SaveRename(p)
  \/ \E p \in Procs : GetBoard(p)
  \/ \E p \in Procs : GetBoardEncode(p)

SpecLoad == (\E disk \in LoadDisks : InitBoot(Handlers, LoadReqs, disk)) /\ [][LoadNext]_vars

\* Two boards, a subscriber on each (handlers 1 and 2) and a client that
\* creates lists on either (handler 3).
TwoBoards == <<SeedBoard(0, 0), MkBoard(2, <<>>, 0)>>

BoardsNext ==
  \/ EvSubscribeOn(1, {1})
  \/ EvSubscribeOn(2, {2})
  \/ \E p \in {1, 2} : EvRecv(p)
  \/ CreateListOn(3, {1, 2}, {"t"}, FreshReads)
  \/ SaveRLock(3)
  \/ SaveCreate(3)
  \/ SaveWrite(3)
  \/ SaveRename(3)
  \/ BcastRLock(3)
  \/ BcastSend(3)

SpecBoards == InitFrom({1, 2, 3}, BoardsReqs, TwoBoards) /\ [][BoardsNext]_vars

\* ------------------------------------------------------------------ claims
\* The step in which handler p answers op with code.
Answers(p, op, code) == out'.p = p /\ out'.op = op /\ out'.code = code

\* C1: a moveCard whose destination list does not resolve answers 404 and
\* leaves the source list as it was when the call began: the same cards in
\* the same order at the same positions.
C1_SourceUntouched ==
  [][\A p \in Handlers :
       (pc[p] = "mv_target" /\ Answers(p, "move", 404))
         => heap'[loc[p].bptr].Lists[loc[p].from] = loc[p].src.Lists[loc[p].from]]_vars

\* C2: every moveCard that has passed validation (board, source list, card
\* and destination list resolved) goes on to persist a snapshot, release the
\* lock and broadcast, and answers 200.
C2_MoveCompletes ==
  \A p \in Handlers : (pc[p] = "mv_finish") ~> (out.p = p /\ out.op = "move" /\ out.code = 200)

\* The boards of the store, by address.
StoreBoards == {boards[id] : id \in DOMAIN boards}

Positioned(cards) == \A i \in 1..Len(cards) : cards[i].Position = i - 1

\* C3: whenever no mutation holds the exclusive lock, the cards of every list
\* have the positions 0..n-1, each card's position being its index.
C3_PositionsContiguous ==
  writer = 0 =>
    \A a \in 1..Len(heap) : \A l \in 1..Len(heap[a].Lists) : Positioned(heap[a].Lists[l].Cards)

\* C3's case: a moveCard has just been answered 404 after it took card 1 out
\* of the first list, and card 2, loaded at index 1, is now first there.
C3_Witness ==
  /\ writer = 0
  /\ out.op = "move" /\ out.code = 404
  /\ 1 \in DOMAIN boards
  /\ Len(heap[boards[1]].Lists[1].Cards) = 1
  /\ heap[boards[1]].Lists[1].Cards[1].uid = 2

\* The places (board, list, index) at which the store holds the card uid.
PlacesOf(u) ==
  UNION {UNION {{<<a, l, i>> : i \in {j \in 1..Len(heap[a].Lists[l].Cards) :
                                        heap[a].Lists[l].Cards[j].uid = u}} :
                  l \in 1..Len(heap[a].Lists)} :
           a \in StoreBoards}

\* C4: whenever no mutation is under way, every card ever made is in exactly
\* one list of the store, once.
C4_CardsConserved ==
  writer = 0 => \A u \in 1..nuid : Cardinality(PlacesOf(u)) = 1

Increasing(log) == \A i \in 1..Len(log) : \A j \in 1..Len(log) : i < j => log[i] < log[j]

\* C5: what a subscriber is sent arrives in the order the mutations committed.
C5_CommitOrder == \A ch \in 1..Len(chans) : Increasing(chans[ch].log)

\* C6: the board getBoard or listBoards returns while a moveCard on that
\* board is under way is the board before the move or the board after it.
C6_NoPartialMove ==
  [][\A p \in Handlers : \A w \in Handlers :
       (/\ pc[p] \in {"gb_encode", "lb_encode"}
        /\ out'.p = p /\ out'.code = 200
        /\ writer = w /\ loc[w].op = "move")
         => \A b \in out'.body :
              b.id = loc[w].src.ID
                => b \in {EncBoard(loc[w].src),
                          EncBoard(MoveApply(loc[w].src, loc[w].from, loc[w].idx,
                                             loc[w].to, loc[w].reqPos))}]_vars

\* The handlers inside save between os.Create and os.Rename.
Saving == {p \in Procs : pc[p] \in {"sv_write", "sv_rename"}}

\* C7: at most one save writes the snapshot at any time.
C7_SingleSaver == Cardinality(Saving) <= 1

\* C8: whatever the moment of a crash, the final location holds no file (the
\* store never saved) or a whole, loadable snapshot.
C8_FinalLoadable == finalIno # 0 => Loadable(inodes[finalIno])

\* C9: a whole snapshot at the final location is the store as some successful
\* mutation left it, the successful mutations applied in commit order.
C9_SnapshotCommitted ==
  (finalIno # 0 /\ Loadable(inodes[finalIno]))
    => \E k \in 1..Len(committed) : inodes[finalIno] = FileOf(committed[k])

\* The step in which handler p offers its message to channel ch.
SendsTo(p, ch) ==
  /\ pc[p] = "bc_send"
  /\ ch \in loc[p].todo
  /\ loc'[p] # loc[p]
  /\ ch \notin loc'[p].todo

\* C10: a broadcast never waits; a queue with room takes the message, a full
\* queue (16 pending) loses it and nothing else changes, no queue ever holds
\* more than 16 messages, and the handler goes on to answer 201.
C10_DropOnlyWhenFull ==
  /\ [](\A ch \in 1..Len(chans) : Len(chans[ch].buf) <= QueueCap)
  /\ [](\A p \in {1, 2, 3} : pc[p] = "bc_send" => ENABLED BcastSend(p))
  /\ [][\A p \in {1, 2, 3} : \A ch \in 1..Len(chans) :
          SendsTo(p, ch) =>
            /\ IF Len(chans[ch].buf) < QueueCap
               THEN chans'[ch].buf = Append(chans[ch].buf, loc[p].msg)
               ELSE chans'[ch] = chans[ch]
            /\ \A other \in 1..Len(chans) : other # ch => chans'[other] = chans[other]
            /\ loc[p].todo = {ch} => Answers(p, "createList", 201)
            /\ heap' = heap]_vars

\* C10's case: the handler has answered 201 for a list whose message the full
\* queue of one subscriber lost and the other subscriber of the board got.
C10_Witness ==
  /\ out.op = "createList" /\ out.code = 201
  /\ \E c1 \in StreamOf(1) : \E c2 \in StreamOf(1) :
       /\ Len(chans[c1].buf) = QueueCap
       /\ chans[c2].log # <<>>
       /\ \A i \in 1..Len(chans[c1].log) :
            chans[c1].log[i] # chans[c2].log[Len(chans[c2].log)]
       /\ chans[c1].log[Len(chans[c1].log)] < chans[c2].log[Len(chans[c2].log)]

\* The step in which handler p commits a createList, createCard or moveCard
\* on board id (b.Events++ has run).
Mutates(p, id) ==
  /\ Len(committed') = Len(committed) + 1
  /\ pc[p] # "sv_rlock" /\ pc'[p] = "sv_rlock"
  /\ loc'[p].op \in {"createList", "createCard", "move"}
  /\ loc'[p].board = id

\* C11: the event counter of a board id is 0 when createBoard makes the id,
\* and from then on every step leaves it as it is, except the commit of a
\* createList, createCard or moveCard on that board, which adds exactly one;
\* so it never decreases, and rejected calls and calls on other boards leave
\* it alone.
C11_EventCounter ==
  [][\A id \in DOMAIN boards' :
       IF id \notin DOMAIN boards
       THEN heap'[boards'[id]].Events = 0
       ELSE heap'[boards'[id]].Events =
              heap[boards[id]].Events + (IF \E p \in Handlers : Mutates(p, id) THEN 1 ELSE 0)]_vars

\* The step in which the moveCard of handler p commits: lines 332-335 are done.
MoveCommits(p) == pc[p] = "mv_finish" /\ pc'[p] = "sv_rlock"

\* The destination list of p's move as the step leaves it.
DestCards(p) == heap'[loc[p].bptr].Lists[FindList(heap'[loc[p].bptr].Lists, loc[p].to)].Cards

Places ==
  UNION {UNION {{<<a, l, i>> : i \in 1..Len(heap[a].Lists[l].Cards)} :
                  l \in 1..Len(heap[a].Lists)} :
           a \in StoreBoards}

\* C13: every Board createBoard made has an id of its own (so none was put
\* in the map in the place of another), the lists of a board have different
\* ids, and so have the cards of the store.
C13_UniqueIds ==
  /\ \A a \in 1..Len(heap) : \A b \in 1..Len(heap) : a # b => heap[a].ID # heap[b].ID
  /\ \A a \in StoreBoards : \A i \in 1..Len(heap[a].Lists) : \A j \in 1..Len(heap[a].Lists) :
        i # j => heap[a].Lists[i].ID # heap[a].Lists[j].ID
  /\ \A x \in Places : \A y \in Places :
        x # y => heap[x[1]].Lists[x[2]].Cards[x[3]].ID # heap[y[1]].Lists[y[2]].Cards[y[3]].ID

\* The step in which handler p answers a mutating call with 400 or 404.
Rejects(p) ==
  /\ out'.p = p
  /\ out'.op \in {"createBoard", "createList", "createCard", "move"}
  /\ out'.code \in {400, 404}

\* C14: when a createBoard, createList, createCard or moveCard is answered 400
\* or 404, the boards, their lists, cards and event counters are as they were
\* when the call began (a moveCard keeps the lock from its beginning, so they
\* are its board as it found it and every other board as it is), and the call
\* has written no file and sent no message.
C14_RejectedNoEffect ==
  [][\A p \in Handlers :
       Rejects(p)
         => /\ boards' = boards
            /\ heap' = IF pc[p] = "mv_target" THEN [heap EXCEPT ![loc[p].bptr] = loc[p].src] ELSE heap
            /\ fsVars' = fsVars
            /\ fanVars' = fanVars
            /\ committed' = committed]_vars

\* The cards of a list, by the order they were made in.
Uids(cards) == [i \in 1..Len(cards) |-> cards[i].uid]

\* s without its i-th element.
Without(s, i) == [k \in 1..(Len(s) - 1) |-> IF k < i THEN s[k] ELSE s[k + 1]]

C16_CancelUnregisters ==
  \A ch \in 1..CancelReqs :
    (pc[1] = "ev_cancel" /\ loc[1].ch = ch)
      ~> (ch <= Len(chans) /\ chans[ch].closed /\ ch \notin StreamOf(1))

\* The file is a snapshot: one whole JSON value and nothing else.
WellFormed(content) == Len(content) = 1 /\ content[1].whole

\* C17: at startup, with no file at the path the process serves with an empty
\* store; with a file that is not a snapshot (empty, cut short, or followed
\* by further bytes) or cannot be opened it exits and serves nothing; with a
\* snapshot it serves, if at all, with the boards, lists, cards and counters
\* the snapshot holds.
C17_StartupLoad ==
  /\ [][Booting =>
          /\ finalIno = 0 => (~Booting' /\ pc'[1] = "idle" /\ boards' = <<>> /\ heap' = <<>>)
          /\ (finalIno # 0 /\ ~WellFormed(inodes[finalIno])) => pc'[1] = "exited"
          /\ (finalIno # 0 /\ WellFormed(inodes[finalIno]) /\ pc'[1] = "idle")
               => Encode(boards', heap') = inodes[finalIno][1].val]_vars
  /\ [](pc[1] = "exited" => (out = NoOut /\ ~ENABLED (\E p \in Handlers : Start(p))))

C19_NoSendAfterClose ==
  /\ [][\A p \in {1, 2, 3} : \A ch \in 1..Len(chans) :
          SendsTo(p, ch) => ~chans[ch].closed]_vars
  /\ [][\A ch \in 1..Len(chans) : chans[ch].closed => chans'[ch] = chans[ch]]_vars
  /\ [](\A p \in {1, 2, 3} : pc[p] = "bc_send" => \A ch \in loc[p].todo : ~chans[ch].closed)
  /\ [](\A ch \in 1..Len(chans) : chans[ch].closed => ch \notin StreamOf(1))

\* C19's case: the subscriber got the message of one createList and left,
\* and the other createList, broadcasting after that, has just been answered.
C19_Witness ==
  /\ Len(chans) = 1 /\ chans[1].closed /\ Len(chans[1].log) = 1
  /\ Len(committed) = 3
  /\ out.op = "createList" /\ out.code = 201
  /\ pc[2] = "idle" /\ pc[3] = "idle"

\* C20: a broadcast for a board leaves the channel of every subscriber of
\* another board as it is, and the channel of a subscriber holds messages of
\* its own board only.
C20_PerBoardRegistry ==
  /\ [][\A s \in {1, 2} :
          (/\ pc[s] = "ev_loop"
           /\ pc[3] = "bc_send" /\ loc'[3] # loc[3]
           /\ loc[3].board # loc[s].board)
            => chans'[loc[s].ch] = chans[loc[s].ch]]_vars
  /\ [](\A s \in {1, 2} :
          pc[s] = "ev_loop"
            => \A i \in 1..Len(chans[loc[s].ch].buf) :
                 chans[loc[s].ch].buf[i].board = loc[s].board)

\* C20's case: the subscriber of board 2 registered first and has been sent
\* nothing, the subscriber of board 1 has the message of a list created on
\* board 1, whose handler has just answered.
C20_Witness ==
  /\ pc[1] = "ev_loop" /\ pc[2] = "ev_loop"
  /\ loc[2].ch = 1 /\ loc[1].ch = 2
  /\ chans[1].log = <<>>
  /\ Len(chans[2].buf) = 1 /\ chans[2].buf[1].board = 1
  /\ out.p = 3 /\ out.op = "createList" /\ out.code = 201
====
